---- MODULE Spec2Model ----
(***************************************************************************)
(* Event-sourced bank account (CQRS/ES): the BankAccount aggregate, the    *)
(* EventStore (events and snapshots tables), the Projector (the            *)
(* account_summaries and transaction_history read models) and the command  *)
(* routes that tie them together.  Every await of a route is a point where *)
(* another request may run, so a route is a chain of actions, one per      *)
(* database round trip.                                                    *)
(*                                                                         *)
(* Amounts and balances are integers; timestamps are readings of one       *)
(* clock that never runs backwards; description, reason and eventId are    *)
(* left out of the rows (no modelled operation reads them).                *)
(***************************************************************************)
EXTENDS Integers, Sequences, FiniteSets, TLC

\* ------------------------------------------------------------------ bounds
MaxEvents == 4          \* cap on event numbers; keeps every log finite
MaxAmount == 1          \* amounts are drawn from 0..MaxAmount
MaxInitialBalance == 1  \* initial balances are drawn from -1..MaxInitialBalance
MaxClock == 2           \* the clock reads 0..MaxClock
MaxFailed == 2          \* projections that have failed and await a retry

\* The routes snapshot when eventNumber % 50 === 0.  The interval is scaled
\* down to 2 so that snapshots, and loads that start from one, happen within
\* MaxEvents events (snapshots after events 2 and 4, tails of 0 to 2 events).
SnapshotInterval == 2

\* the requests that may be in flight at once
Procs == {"r1", "r2"}
Accounts == {"a1"}
OwnerNames == {"ann"}
Currencies == {"USD"}
\* a transactionId is accepted once per account, so with create and close a
\* log holds at most Cardinality(TransactionIds) + 2 events
TransactionIds == {"t1", "t2"}
Amounts == 0..MaxAmount
InitialBalances == (0 - 1)..MaxInitialBalance

\* ------------------------------------------------------------- event types
AccountCreated == "AccountCreated"
MoneyDeposited == "MoneyDeposited"
MoneyWithdrawn == "MoneyWithdrawn"
AccountClosed == "AccountClosed"

\* eventData of the four kinds, as one record shape (unused fields empty)
NoData == [ownerName |-> "", initialBalance |-> 0, currency |-> "",
           amount |-> 0, transactionId |-> ""]

\* timestamp: new Date() is read when the handler builds the event; the
\* handlers below are pure, so the route step that calls them stamps it
DomainEvent(id, type, data, n) ==
    [aggregateId |-> id, eventType |-> type, eventData |-> data,
     eventNumber |-> n, version |-> n, timestamp |-> 0]

VARIABLES
    events,       \* events table: account id -> rows in insertion order
    snapshots,    \* snapshots table: account id -> row (one row per aggregate)
    summaries,    \* account_summaries: account id -> row
    history,      \* transaction_history: transaction id -> row
    pc,           \* per request: the await it is parked at
    cmd,          \* per request: the command being handled
    snap,         \* per request: result of getSnapshot
    account,      \* per request: the in-memory BankAccount
    proj,         \* per request: what Projector.project read (summaryRes)
    resp,         \* per request: the response sent, and the error logged
    clock,        \* what new Date() returns now
    failed,       \* events whose projection failed and was not retried since
    rebuild,      \* the background Projector.rebuild(), if one is running
    query         \* the balance-at query being answered, if any

vars == <<events, snapshots, summaries, history, pc, cmd, snap, account, proj,
          resp, clock, failed, rebuild, query>>
store == <<events, snapshots, summaries, history>>
\* what the command routes never touch unless a projection fails
aux == <<clock, failed, rebuild, query>>

\* ------------------------------------------------------- BankAccount (pure)
NewBankAccount ==
    [state |-> [accountId |-> "", ownerName |-> "", balance |-> 0,
                currency |-> "", status |-> "CLOSED",
                processedTransactionIds |-> {}],
     changes |-> <<>>,
     version |-> 0]

\* the bookkeeping of a handler after apply(event): changes.push(event)
pushChange(acc, applied, event) ==
    [applied EXCEPT !.changes = Append(acc.changes, event)]

\* apply with the sign of a withdrawal wrong: the amount is added
apply_WithdrawalAdded(acc, event) ==
    LET s == acc.state
        d == event.eventData
        s2 == CASE event.eventType = AccountCreated ->
                     [s EXCEPT !.accountId = event.aggregateId,
                               !.ownerName = d.ownerName,
                               !.balance = d.initialBalance,
                               !.currency = d.currency,
                               !.status = "OPEN"]
                [] event.eventType \in {MoneyDeposited, MoneyWithdrawn} ->
                     [s EXCEPT !.balance = s.balance + d.amount,
                               !.processedTransactionIds = @ \cup {d.transactionId}]
                [] event.eventType = AccountClosed ->
                     [s EXCEPT !.status = "CLOSED"]
                [] OTHER -> s
    IN [acc EXCEPT !.state = s2, !.version = event.version]

apply(acc, event) ==
    LET s == acc.state
        d == event.eventData
        s2 == CASE event.eventType = AccountCreated ->
                     [s EXCEPT !.accountId = event.aggregateId,
                               !.ownerName = d.ownerName,
                               !.balance = d.initialBalance,
                               !.currency = d.currency,
                               !.status = "OPEN"]
                [] event.eventType = MoneyDeposited ->
                     [s EXCEPT !.balance = s.balance + d.amount,
                               !.processedTransactionIds = @ \cup {d.transactionId}]
                [] event.eventType = MoneyWithdrawn ->
                     [s EXCEPT !.balance = s.balance - d.amount,
                               !.processedTransactionIds = @ \cup {d.transactionId}]
                [] event.eventType = AccountClosed ->
                     [s EXCEPT !.status = "CLOSED"]
                [] OTHER -> s
    IN [acc EXCEPT !.state = s2, !.version = event.version]


\* apply(event); changes.push(event)
raise(acc, event) == pushChange(acc, apply(acc, event), event)

create(id, ownerName, initialBalance, currency) ==
    raise(NewBankAccount,
          DomainEvent(id, AccountCreated,
                      [NoData EXCEPT !.ownerName = ownerName,
                                     !.initialBalance = initialBalance,
                                     !.currency = currency], 1))

\* A command handler returns [error, account]: error "" when it did not throw.
Ok(acc) == [error |-> "", account |-> acc]
Throw(acc, msg) == [error |-> msg, account |-> acc]

\* deposit without the processedTransactionIds test
deposit_NoIdempotencyCheck(acc, amount, transactionId) ==
    IF acc.state.status = "CLOSED" THEN Throw(acc, "Account is closed")
    ELSE IF amount <= 0 THEN Throw(acc, "Deposit amount must be positive")
    ELSE Ok(raise(acc, DomainEvent(acc.state.accountId, MoneyDeposited,
                      [NoData EXCEPT !.amount = amount,
                                     !.transactionId = transactionId],
                      acc.version + 1)))

\* deposit without the status test
deposit_NoClosedCheck(acc, amount, transactionId) ==
    IF amount <= 0 THEN Throw(acc, "Deposit amount must be positive")
    ELSE IF transactionId \in acc.state.processedTransactionIds THEN Ok(acc)
    ELSE Ok(raise(acc, DomainEvent(acc.state.accountId, MoneyDeposited,
                      [NoData EXCEPT !.amount = amount,
                                     !.transactionId = transactionId],
                      acc.version + 1)))

\* deposit whose event carries this.version instead of newVersion
deposit_VersionNotBumped(acc, amount, transactionId) ==
    IF acc.state.status = "CLOSED" THEN Throw(acc, "Account is closed")
    ELSE IF amount <= 0 THEN Throw(acc, "Deposit amount must be positive")
    ELSE IF transactionId \in acc.state.processedTransactionIds THEN Ok(acc)
    ELSE Ok(raise(acc, [DomainEvent(acc.state.accountId, MoneyDeposited,
                            [NoData EXCEPT !.amount = amount,
                                           !.transactionId = transactionId],
                            acc.version + 1) EXCEPT !.version = acc.version]))

deposit(acc, amount, transactionId) ==
    IF acc.state.status = "CLOSED" THEN Throw(acc, "Account is closed")
    ELSE IF amount <= 0 THEN Throw(acc, "Deposit amount must be positive")
    ELSE IF transactionId \in acc.state.processedTransactionIds THEN Ok(acc)
    ELSE Ok(raise(acc, DomainEvent(acc.state.accountId, MoneyDeposited,
                      [NoData EXCEPT !.amount = amount,
                                     !.transactionId = transactionId],
                      acc.version + 1)))

\* withdraw without the balance test
withdraw_NoFundsCheck(acc, amount, transactionId) ==
    IF acc.state.status = "CLOSED" THEN Throw(acc, "Account is closed")
    ELSE IF amount <= 0 THEN Throw(acc, "Withdrawal amount must be positive")
    ELSE IF transactionId \in acc.state.processedTransactionIds THEN Ok(acc)
    ELSE Ok(raise(acc, DomainEvent(acc.state.accountId, MoneyWithdrawn,
                      [NoData EXCEPT !.amount = amount,
                                     !.transactionId = transactionId],
                      acc.version + 1)))

withdraw(acc, amount, transactionId) ==
    IF acc.state.status = "CLOSED" THEN Throw(acc, "Account is closed")
    ELSE IF amount <= 0 THEN Throw(acc, "Withdrawal amount must be positive")
    ELSE IF acc.state.balance < amount THEN Throw(acc, "Insufficient funds")
    ELSE IF transactionId \in acc.state.processedTransactionIds THEN Ok(acc)
    ELSE Ok(raise(acc, DomainEvent(acc.state.accountId, MoneyWithdrawn,
                      [NoData EXCEPT !.amount = amount,
                                     !.transactionId = transactionId],
                      acc.version + 1)))

\* close without the balance test
close_NoBalanceCheck(acc) ==
    IF acc.state.status = "CLOSED" THEN Throw(acc, "Account is already closed")
    ELSE Ok(raise(acc, DomainEvent(acc.state.accountId, AccountClosed, NoData,
                      acc.version + 1)))

close(acc) ==
    IF acc.state.status = "CLOSED" THEN Throw(acc, "Account is already closed")
    ELSE IF acc.state.balance # 0
         THEN Throw(acc, "Cannot close account with non-zero balance")
    ELSE Ok(raise(acc, DomainEvent(acc.state.accountId, AccountClosed, NoData,
                      acc.version + 1)))

\* ------------------------------------------------- snapshot (de)serialising
\* Array.from(set): the members as a list
RECURSIVE ArrayFrom(_)
ArrayFrom(S) ==
    IF S = {} THEN <<>>
    ELSE LET x == CHOOSE y \in S : TRUE IN <<x>> \o ArrayFrom(S \ {x})

\* new Set(array)
SetFrom(arr) == {arr[i] : i \in 1..Len(arr)}

\* the Set spread into the snapshot as it is: JSON.stringify turns it into {}
SnapshotData_SetNotConverted(acc) ==
    [acc.state EXCEPT !.processedTransactionIds =
        [isArray |-> FALSE, items |-> <<>>]]

\* { ...account.state, processedTransactionIds: Array.from(...) }
SnapshotData(acc) ==
    [acc.state EXCEPT !.processedTransactionIds =
        [isArray |-> TRUE, items |-> ArrayFrom(acc.state.processedTransactionIds)]]

RECURSIVE applyAll(_, _)
applyAll(acc, evs) ==
    IF evs = <<>> THEN acc ELSE applyAll(apply(acc, Head(evs)), Tail(evs))

NoSnapshot == [present |-> FALSE, data |-> SnapshotData(NewBankAccount),
               lastEventNumber |-> 0]

\* hydrate that restores the state but leaves version at 0
hydrate_VersionNotRestored(evs, snapshot) ==
    LET restored ==
          IF snapshot.present
          THEN [NewBankAccount EXCEPT
                  !.state = [snapshot.data EXCEPT !.processedTransactionIds =
                               IF snapshot.data.processedTransactionIds.isArray
                               THEN SetFrom(snapshot.data.processedTransactionIds.items)
                               ELSE {}]]
          ELSE NewBankAccount
    IN applyAll(restored, evs)

hydrate(evs, snapshot) ==
    LET restored ==
          IF snapshot.present
          THEN [NewBankAccount EXCEPT
                  !.state = [snapshot.data EXCEPT !.processedTransactionIds =
                               IF snapshot.data.processedTransactionIds.isArray
                               THEN SetFrom(snapshot.data.processedTransactionIds.items)
                               ELSE {}],
                  !.version = snapshot.lastEventNumber]
          ELSE NewBankAccount
    IN applyAll(restored, evs)

\* ------------------------------------------------------------- EventStore
\* ORDER BY version ASC (rows of equal version keep their table order)
RECURSIVE orderByVersion(_)
orderByVersion(rows) ==
    IF rows = <<>> THEN <<>>
    ELSE LET m == CHOOSE i \in 1..Len(rows) :
                    \A j \in 1..Len(rows) :
                        \/ rows[i].version < rows[j].version
                        \/ rows[i].version = rows[j].version /\ i <= j
             rest == [k \in 1..(Len(rows) - 1) |->
                        IF k < m THEN rows[k] ELSE rows[k + 1]]
         IN <<rows[m]>> \o orderByVersion(rest)

\* SELECT * FROM events WHERE aggregate_id = $1 AND version > $2 ORDER BY version
getEvents(table, aggregateId, fromVersion) ==
    orderByVersion(SelectSeq(table[aggregateId],
                             LAMBDA row : row.version > fromVersion))

\* the rows of the events table, every aggregate's
allRows(table) ==
    UNION {{table[a][i] : i \in 1..Len(table[a])} : a \in DOMAIN table}

\* ORDER BY timestamp ASC, event_number DESC
RECURSIVE orderByTimestamp_NumberDescending(_)
orderByTimestamp_NumberDescending(rows) ==
    IF rows = {} THEN <<>>
    ELSE LET first == CHOOSE r \in rows :
                        \A q \in rows :
                            \/ r.timestamp < q.timestamp
                            \/ /\ r.timestamp = q.timestamp
                               /\ r.eventNumber >= q.eventNumber
         IN <<first>> \o orderByTimestamp_NumberDescending(rows \ {first})

\* ORDER BY timestamp ASC, event_number ASC (rows equal in both belong to
\* different aggregates; one of their orders is taken)
RECURSIVE orderByTimestamp(_)
orderByTimestamp(rows) ==
    IF rows = {} THEN <<>>
    ELSE LET first == CHOOSE r \in rows :
                        \A q \in rows :
                            \/ r.timestamp < q.timestamp
                            \/ /\ r.timestamp = q.timestamp
                               /\ r.eventNumber <= q.eventNumber
         IN <<first>> \o orderByTimestamp(rows \ {first})

\* a lookup that never finds the (aggregate_id, event_number) pair
eventExists_NeverFound(table, aggregateId, eventNumber) == FALSE

\* SELECT 1 FROM events WHERE aggregate_id = $1 AND event_number = $2
eventExists(table, aggregateId, eventNumber) ==
    \E i \in 1..Len(table[aggregateId]) :
        table[aggregateId][i].eventNumber = eventNumber

\* SELECT * FROM snapshots WHERE aggregate_id = $1
getSnapshot(table, aggregateId) ==
    IF aggregateId \in DOMAIN table
    THEN [present |-> TRUE, data |-> table[aggregateId].snapshot_data,
          lastEventNumber |-> table[aggregateId].last_event_number]
    ELSE NoSnapshot

\* INSERT INTO snapshots ... ON CONFLICT (aggregate_id) DO UPDATE
saveSnapshot(table, aggregateId, snapshotData, lastEventNumber) ==
    [a \in DOMAIN table \cup {aggregateId} |->
        IF a = aggregateId
        THEN [snapshot_data |-> snapshotData, last_event_number |-> lastEventNumber]
        ELSE table[a]]

\* snapshot, then the events after it, in one call
loadBankAccount(snapTable, eventTable, accountId) ==
    LET snapshot == getSnapshot(snapTable, accountId)
        fromVersion == IF snapshot.present THEN snapshot.lastEventNumber ELSE 0
    IN hydrate(getEvents(eventTable, accountId, fromVersion), snapshot)

\* -------------------------------------------------------------- Projector
\* the UPDATE without "version = $2"
updateSummary_VersionNotSet(table, accountId, balanceDelta, status, version) ==
    IF accountId \in DOMAIN table
    THEN [table EXCEPT ![accountId] =
            [@ EXCEPT !.balance = @ + balanceDelta,
                      !.status = IF status = "" THEN @ ELSE status]]
    ELSE table

\* UPDATE account_summaries SET ... WHERE account_id = $n (no row: no effect)
updateSummary(table, accountId, balanceDelta, status, version) ==
    IF accountId \in DOMAIN table
    THEN [table EXCEPT ![accountId] =
            [@ EXCEPT !.balance = @ + balanceDelta,
                      !.status = IF status = "" THEN @ ELSE status,
                      !.version = version]]
    ELSE table

\* INSERT INTO transaction_history ... ON CONFLICT (transaction_id) DO NOTHING
insertTransaction(table, transactionId, accountId, type, amount) ==
    IF transactionId \in DOMAIN table THEN table
    ELSE [t \in DOMAIN table \cup {transactionId} |->
            IF t = transactionId
            THEN [account_id |-> accountId, type |-> type, amount |-> amount]
            ELSE table[t]]

\* INSERT INTO account_summaries ... ON CONFLICT (account_id) DO NOTHING
projectAccountCreated(table, event) ==
    IF event.aggregateId \in DOMAIN table THEN table
    ELSE [a \in DOMAIN table \cup {event.aggregateId} |->
            IF a = event.aggregateId
            THEN [owner_name |-> event.eventData.ownerName,
                  balance |-> event.eventData.initialBalance,
                  currency |-> event.eventData.currency,
                  status |-> "OPEN",
                  version |-> event.version]
            ELSE table[a]]

\* What project() reads first: SELECT version FROM account_summaries
selectVersion(table, aggregateId) ==
    [rows |-> IF aggregateId \in DOMAIN table THEN 1 ELSE 0,
     currentVersion |-> IF aggregateId \in DOMAIN table
                        THEN table[aggregateId].version ELSE 0]

NoProj == [rows |-> 0, currentVersion |-> 0]

\* the version guard of project()
projectSkips(event, summaryRes) ==
    event.version <= summaryRes.currentVersion /\ event.eventType # AccountCreated

\* The switch of project(): the new <<account_summaries, transaction_history>>
projectWrite(sums, hist, event, summaryRes) ==
    LET d == event.eventData IN
    CASE event.eventType = AccountCreated ->
           <<IF summaryRes.rows = 0 THEN projectAccountCreated(sums, event) ELSE sums,
             hist>>
      [] event.eventType = MoneyDeposited ->
           <<updateSummary(sums, event.aggregateId, d.amount, "", event.version),
             insertTransaction(hist, d.transactionId, event.aggregateId,
                               "DEPOSIT", d.amount)>>
      [] event.eventType = MoneyWithdrawn ->
           <<updateSummary(sums, event.aggregateId, 0 - d.amount, "", event.version),
             insertTransaction(hist, d.transactionId, event.aggregateId,
                               "WITHDRAWAL", d.amount)>>
      [] event.eventType = AccountClosed ->
           <<updateSummary(sums, event.aggregateId, 0, "CLOSED", event.version),
             hist>>
      [] OTHER -> <<sums, hist>>

\* project() with the guard "event.version < currentVersion"
project_GuardStrict(sums, hist, event) ==
    LET summaryRes == selectVersion(sums, event.aggregateId)
    IN IF event.version < summaryRes.currentVersion
          /\ event.eventType # AccountCreated
       THEN <<sums, hist>>
       ELSE projectWrite(sums, hist, event, summaryRes)

\* One whole successful call of project(event) with no other transaction in
\* between: the new <<account_summaries, transaction_history>>
project(sums, hist, event) ==
    LET summaryRes == selectVersion(sums, event.aggregateId)
    IN IF projectSkips(event, summaryRes)
       THEN <<sums, hist>>
       ELSE projectWrite(sums, hist, event, summaryRes)

\* ------------------------------------------------------------------ queries
\* new Date(string) of a string that is no date: getTime() is NaN
InvalidDate == 0 - 1
isNaN(targetDate) == targetDate = InvalidDate

\* the balance-at route with the filter "timestamp < targetDate"
balanceAt_StrictlyBefore(table, id, targetDate) ==
    IF isNaN(targetDate) THEN [status |-> 400, balanceAt |-> 0]
    ELSE LET allEvents == getEvents(table, id, 0)
             relevantEvents ==
                 SelectSeq(allEvents, LAMBDA e : e.timestamp < targetDate)
         IN IF Len(relevantEvents) = 0
            THEN [status |-> 404, balanceAt |-> 0]
            ELSE [status |-> 200,
                  balanceAt |-> hydrate(relevantEvents, NoSnapshot).state.balance]

\* The balance-at route: [status, balanceAt]
balanceAt(table, id, targetDate) ==
    IF isNaN(targetDate) THEN [status |-> 400, balanceAt |-> 0]
    ELSE LET allEvents == getEvents(table, id, 0)
             relevantEvents ==
                 SelectSeq(allEvents, LAMBDA e : e.timestamp <= targetDate)
         IN IF Len(relevantEvents) = 0
            THEN [status |-> 404, balanceAt |-> 0]
            ELSE [status |-> 200,
                  balanceAt |-> hydrate(relevantEvents, NoSnapshot).state.balance]

\* ---------------------------------------------------------------- requests
NoCmd == [type |-> "", id |-> "", ownerName |-> "", initialBalance |-> 0,
          currency |-> "", amount |-> 0, transactionId |-> ""]

CreateCommands ==
    {[NoCmd EXCEPT !.type = "create", !.id = a, !.ownerName = o,
                   !.initialBalance = b, !.currency = c] :
        a \in Accounts, o \in OwnerNames, b \in InitialBalances, c \in Currencies}

MoneyCommands ==
    {[NoCmd EXCEPT !.type = t, !.id = a, !.amount = m, !.transactionId = x] :
        t \in {"deposit", "withdraw"}, a \in Accounts, m \in Amounts,
        x \in TransactionIds}

CloseCommands == {[NoCmd EXCEPT !.type = "close", !.id = a] : a \in Accounts}

Commands == CreateCommands \cup MoneyCommands \cup CloseCommands

NoResp == [status |-> 0, error |-> "", logged |-> ""]
Response(status, error) == [status |-> status, error |-> error, logged |-> ""]
\* catch (err) { console.error(err); res.status(500)... }
ServerError(err) ==
    [status |-> 500, error |-> "Internal server error", logged |-> err]

\* the body validation at the top of each route
invalidInput(c) ==
    CASE c.type = "create" ->
           c.id = "" \/ c.ownerName = "" \/ c.initialBalance < 0 \/ c.currency = ""
      [] c.type \in {"deposit", "withdraw"} ->
           c.amount <= 0 \/ c.transactionId = ""
      [] OTHER -> FALSE

\* account.deposit / withdraw / close as the route calls it
handle(acc, c) ==
    CASE c.type = "deposit" -> deposit(acc, c.amount, c.transactionId)
      [] c.type = "withdraw" -> withdraw(acc, c.amount, c.transactionId)
      [] OTHER -> close(acc)

\* timestamp: new Date() of the events the handler has just built
stamped(acc, now) ==
    [acc EXCEPT !.changes =
        [i \in DOMAIN acc.changes |-> [acc.changes[i] EXCEPT !.timestamp = now]]]

\* The event of the save/project/snapshot loop.  Every handler pushes at most
\* one event, so the loop body runs at most once.
Change(p) == Head(account[p].changes)

Done(p, r) ==
    /\ pc' = [pc EXCEPT ![p] = "done"]
    /\ resp' = [resp EXCEPT ![p] = r]

NoRebuild == [pc |-> "idle", rows |-> <<>>, before |-> <<>>]
NoQuery == [pc |-> "idle", id |-> "", timestamp |-> 0, status |-> 0, balanceAt |-> 0]

Init ==
    /\ events = [a \in Accounts |-> <<>>]
    /\ snapshots = <<>>
    /\ summaries = <<>>
    /\ history = <<>>
    /\ pc = [p \in Procs |-> "idle"]
    /\ cmd = [p \in Procs |-> NoCmd]
    /\ snap = [p \in Procs |-> NoSnapshot]
    /\ account = [p \in Procs |-> NewBankAccount]
    /\ proj = [p \in Procs |-> NoProj]
    /\ resp = [p \in Procs |-> NoResp]
    /\ clock = 0
    /\ failed = {}
    /\ rebuild = NoRebuild
    /\ query = NoQuery

\* A request arrives: validation, then the first await (getSnapshot).
Request(p, c) ==
    /\ pc[p] = "idle"
    /\ cmd' = [cmd EXCEPT ![p] = c]
    /\ IF invalidInput(c)
       THEN /\ Done(p, Response(400, "Invalid input"))
            /\ UNCHANGED snap
       ELSE /\ snap' = [snap EXCEPT ![p] = getSnapshot(snapshots, c.id)]
            /\ pc' = [pc EXCEPT ![p] = "getEvents"]
            /\ UNCHANGED resp
    /\ UNCHANGED <<store, account, proj>>
    /\ UNCHANGED aux

\* loadBankAccount after its first await: getEvents from the snapshot read
\* earlier, then hydrate
Loaded(p) ==
    LET fromVersion == IF snap[p].present THEN snap[p].lastEventNumber ELSE 0
    IN hydrate(getEvents(events, cmd[p].id, fromVersion), snap[p])

\* getEvents returns; hydrate and the command run up to the next await.
Load(p) ==
    /\ pc[p] = "getEvents"
    /\ LET c == cmd[p]
           loaded == Loaded(p)
           res == handle(loaded, c)
       IN IF c.type = "create"
          THEN IF loaded.version > 0
               THEN /\ Done(p, Response(409, "Account already exists"))
                    /\ account' = [account EXCEPT ![p] = loaded]
               ELSE /\ account' = [account EXCEPT ![p] =
                          stamped(create(c.id, c.ownerName, c.initialBalance,
                                         c.currency), clock)]
                    /\ pc' = [pc EXCEPT ![p] = "save"]
                    /\ UNCHANGED resp
          ELSE IF loaded.version = 0
               THEN /\ Done(p, Response(404, "Account not found"))
                    /\ account' = [account EXCEPT ![p] = loaded]
          ELSE IF res.error # ""
               THEN /\ Done(p, Response(409, res.error))
                    /\ account' = [account EXCEPT ![p] = res.account]
          ELSE IF res.account.changes = <<>>
               THEN /\ Done(p, Response(202, ""))
                    /\ account' = [account EXCEPT ![p] = res.account]
          ELSE /\ res.account.version <= MaxEvents
               /\ account' = [account EXCEPT ![p] = stamped(res.account, clock)]
               /\ pc' = [pc EXCEPT ![p] = "save"]
               /\ UNCHANGED resp
    /\ UNCHANGED <<store, cmd, snap, proj>>
    /\ UNCHANGED aux

\* EventStore.save, the pre-check SELECT
SaveCheck(p) ==
    /\ pc[p] = "save"
    /\ IF eventExists(events, Change(p).aggregateId, Change(p).eventNumber)
       THEN Done(p, ServerError("Concurrency conflict"))
       ELSE /\ pc' = [pc EXCEPT ![p] = "insert"]
            /\ UNCHANGED resp
    /\ UNCHANGED <<store, cmd, snap, account, proj>>
    /\ UNCHANGED aux

\* the INSERT into an events table that has no UNIQUE constraint
SaveInsert_NoUniqueConstraint(p) ==
    /\ pc[p] = "insert"
    /\ events' = [events EXCEPT ![Change(p).aggregateId] = Append(@, Change(p))]
    /\ pc' = [pc EXCEPT ![p] = "project"]
    /\ UNCHANGED <<snapshots, summaries, history, cmd, snap, account, proj, resp>>
    /\ UNCHANGED aux

\* save that swallows the failed INSERT, so the route carries on to project
SaveInsert_ErrorSwallowed(p) ==
    /\ pc[p] = "insert"
    /\ IF eventExists(events, Change(p).aggregateId, Change(p).eventNumber)
       THEN UNCHANGED events
       ELSE events' = [events EXCEPT ![Change(p).aggregateId] =
                           Append(@, Change(p))]
    /\ pc' = [pc EXCEPT ![p] = "project"]
    /\ UNCHANGED <<snapshots, summaries, history, cmd, snap, account, proj, resp>>
    /\ UNCHANGED aux

\* EventStore.save, the INSERT under UNIQUE(aggregate_id, event_number), COMMIT
SaveInsert(p) ==
    /\ pc[p] = "insert"
    /\ IF eventExists(events, Change(p).aggregateId, Change(p).eventNumber)
       THEN /\ Done(p, ServerError("duplicate key value"))
            /\ UNCHANGED events
       ELSE /\ events' = [events EXCEPT ![Change(p).aggregateId] =
                              Append(@, Change(p))]
            /\ pc' = [pc EXCEPT ![p] = "project"]
            /\ UNCHANGED resp
    /\ UNCHANGED <<snapshots, summaries, history, cmd, snap, account, proj>>
    /\ UNCHANGED aux

\* the snapshot test as the comment above it reads: "trigger on 51, 101, 151"
AfterProject_OneAfterInterval(p) ==
    IF cmd[p].type # "create" /\ Change(p).eventNumber % SnapshotInterval = 1
    THEN /\ pc' = [pc EXCEPT ![p] = "saveSnapshot"]
         /\ UNCHANGED resp
    ELSE Done(p, Response(202, ""))

\* after projector.project(event) returns: the snapshot test of the loop
AfterProject(p) ==
    IF cmd[p].type # "create" /\ Change(p).eventNumber % SnapshotInterval = 0
    THEN /\ pc' = [pc EXCEPT ![p] = "saveSnapshot"]
         /\ UNCHANGED resp
    ELSE Done(p, Response(202, ""))

\* Projector.project: BEGIN, SELECT version, the version guard
ProjectSelect(p) ==
    /\ pc[p] = "project"
    /\ LET summaryRes == selectVersion(summaries, Change(p).aggregateId)
       IN /\ proj' = [proj EXCEPT ![p] = summaryRes]
          /\ IF projectSkips(Change(p), summaryRes)
             THEN AfterProject(p)
             ELSE /\ pc' = [pc EXCEPT ![p] = "projectWrite"]
                  /\ UNCHANGED resp
    /\ UNCHANGED <<store, cmd, snap, account>>
    /\ UNCHANGED aux

\* Projector.project: the UPDATE/INSERT statements and COMMIT
ProjectWrite(p) ==
    /\ pc[p] = "projectWrite"
    /\ LET w == projectWrite(summaries, history, Change(p), proj[p])
       IN /\ summaries' = w[1]
          /\ history' = w[2]
    /\ AfterProject(p)
    /\ UNCHANGED <<events, snapshots, cmd, snap, account, proj>>
    /\ UNCHANGED aux

\* a snapshot tagged with the number after the event's
SaveSnapshot_TaggedWithNext(p) ==
    /\ pc[p] = "saveSnapshot"
    /\ snapshots' = saveSnapshot(snapshots, cmd[p].id, SnapshotData(account[p]),
                                 Change(p).eventNumber + 1)
    /\ Done(p, Response(202, ""))
    /\ UNCHANGED <<events, summaries, history, cmd, snap, account, proj>>
    /\ UNCHANGED aux

\* eventStore.saveSnapshot(id, {...account.state, ...}, event.eventNumber)
SaveSnapshot(p) ==
    /\ pc[p] = "saveSnapshot"
    /\ snapshots' = saveSnapshot(snapshots, cmd[p].id, SnapshotData(account[p]),
                                 Change(p).eventNumber)
    /\ Done(p, Response(202, ""))
    /\ UNCHANGED <<events, summaries, history, cmd, snap, account, proj>>
    /\ UNCHANGED aux

\* The response has gone out; the request's objects are dropped.
Complete(p) ==
    /\ pc[p] = "done"
    /\ pc' = [pc EXCEPT ![p] = "idle"]
    /\ cmd' = [cmd EXCEPT ![p] = NoCmd]
    /\ snap' = [snap EXCEPT ![p] = NoSnapshot]
    /\ account' = [account EXCEPT ![p] = NewBankAccount]
    /\ proj' = [proj EXCEPT ![p] = NoProj]
    /\ resp' = [resp EXCEPT ![p] = NoResp]
    /\ UNCHANGED store
    /\ UNCHANGED aux

\* A statement of project() rejects inside the try (BEGIN, the SELECT, an
\* UPDATE/INSERT or COMMIT): catch rolls back and logs, project() returns and
\* the route carries on.
ProjectFail(p) ==
    /\ pc[p] \in {"project", "projectWrite"}
    /\ Cardinality(failed) < MaxFailed
    /\ failed' = failed \cup {Change(p)}
    /\ AfterProject(p)
    /\ UNCHANGED <<store, cmd, snap, account, proj>>
    /\ UNCHANGED <<clock, rebuild, query>>

\* pool.connect() rejects before the try, or the ROLLBACK of the catch
\* rejects: project() rejects and the route's catch answers 500.
ProjectThrow(p) ==
    /\ pc[p] \in {"project", "projectWrite"}
    /\ Cardinality(failed) < MaxFailed
    /\ failed' = failed \cup {Change(p)}
    /\ Done(p, ServerError("Projection error"))
    /\ UNCHANGED <<store, cmd, snap, account, proj>>
    /\ UNCHANGED <<clock, rebuild, query>>

\* project(e) called again for an event whose projection failed, while no
\* command is in flight; this time every statement succeeds.
DirectProject ==
    /\ \A p \in Procs : pc[p] \in {"idle", "done"}
    /\ rebuild.pc = "idle"
    /\ \E e \in failed :
          /\ LET w == project(summaries, history, e)
             IN /\ summaries' = w[1]
                /\ history' = w[2]
          /\ failed' = failed \ {e}
    /\ UNCHANGED <<events, snapshots, pc, cmd, snap, account, proj, resp>>
    /\ UNCHANGED <<clock, rebuild, query>>

\* a rebuild that truncates the events table with the read models
RebuildTruncate_EventsToo ==
    /\ rebuild.pc = "idle"
    /\ \A p \in Procs : pc[p] = "idle"
    /\ events' = [a \in Accounts |-> <<>>]
    /\ summaries' = <<>>
    /\ history' = <<>>
    /\ failed' = {}
    /\ rebuild' = [pc |-> "select", rows |-> <<>>,
                   before |-> <<summaries, history>>]
    /\ UNCHANGED <<snapshots, pc, cmd, snap, account, proj, resp>>
    /\ UNCHANGED <<clock, query>>

\* rebuild(): TRUNCATE TABLE account_summaries, transaction_history.  It runs
\* while no command is in flight and none arrives until it is over; every
\* event is about to be projected again.
RebuildTruncate ==
    /\ rebuild.pc = "idle"
    /\ \A p \in Procs : pc[p] = "idle"
    /\ summaries' = <<>>
    /\ history' = <<>>
    /\ failed' = {}
    /\ rebuild' = [pc |-> "select", rows |-> <<>>,
                   before |-> <<summaries, history>>]
    /\ UNCHANGED <<events, snapshots, pc, cmd, snap, account, proj, resp>>
    /\ UNCHANGED <<clock, query>>

\* rebuild(): SELECT * FROM events ORDER BY timestamp ASC, event_number ASC
RebuildSelect ==
    /\ rebuild.pc = "select"
    /\ LET result == orderByTimestamp(allRows(events))
       IN rebuild' = [rebuild EXCEPT !.rows = result,
                         !.pc = IF result = <<>> THEN "done" ELSE "project"]
    /\ UNCHANGED <<store, pc, cmd, snap, account, proj, resp>>
    /\ UNCHANGED <<clock, failed, query>>

\* rebuild(): await this.project(event) for the next row
RebuildProject ==
    /\ rebuild.pc = "project"
    /\ LET w == project(summaries, history, Head(rebuild.rows))
       IN /\ summaries' = w[1]
          /\ history' = w[2]
    /\ rebuild' = [rebuild EXCEPT !.rows = Tail(@),
                      !.pc = IF Tail(rebuild.rows) = <<>> THEN "done" ELSE @]
    /\ UNCHANGED <<events, snapshots, pc, cmd, snap, account, proj, resp>>
    /\ UNCHANGED <<clock, failed, query>>

\* rebuild() has resolved
RebuildComplete ==
    /\ rebuild.pc = "done"
    /\ rebuild' = NoRebuild
    /\ UNCHANGED <<store, pc, cmd, snap, account, proj, resp>>
    /\ UNCHANGED <<clock, failed, query>>

\* a command arrives while no rebuild is running
RequestNoRebuild(p, c) ==
    /\ rebuild.pc = "idle"
    /\ Request(p, c)

QueryTimes == InvalidDate..MaxClock

\* GET /accounts/:id/balance-at/:timestamp, answered in one step (one SELECT)
BalanceAt(id, targetDate) ==
    /\ query.pc = "idle"
    /\ LET r == balanceAt(events, id, targetDate)
       IN query' = [pc |-> "done", id |-> id, timestamp |-> targetDate,
                    status |-> r.status, balanceAt |-> r.balanceAt]
    /\ UNCHANGED <<store, pc, cmd, snap, account, proj, resp>>
    /\ UNCHANGED <<clock, failed, rebuild>>

\* the answer has gone out
QueryComplete ==
    /\ query.pc = "done"
    /\ query' = NoQuery
    /\ UNCHANGED <<store, pc, cmd, snap, account, proj, resp>>
    /\ UNCHANGED <<clock, failed, rebuild>>

\* time passes
Tick ==
    /\ clock < MaxClock
    /\ clock' = clock + 1
    /\ UNCHANGED <<store, pc, cmd, snap, account, proj, resp>>
    /\ UNCHANGED <<failed, rebuild, query>>

Next ==
    \/ \E p \in Procs, c \in Commands : Request(p, c)
    \/ \E p \in Procs : Load(p)
    \/ \E p \in Procs : SaveCheck(p)
    \/ \E p \in Procs : SaveInsert(p)
    \/ \E p \in Procs : ProjectSelect(p)
    \/ \E p \in Procs : ProjectWrite(p)
    \/ \E p \in Procs : SaveSnapshot(p)
    \/ \E p \in Procs : Complete(p)

Spec == Init /\ [][Next]_vars

\* One command at a time: a request is taken only when no other is in flight.
RequestSeq(p, c) ==
    /\ \A q \in Procs : pc[q] \in {"idle", "done"}
    /\ Request(p, c)

NextSeq ==
    \/ \E p \in Procs, c \in Commands : RequestSeq(p, c)
    \/ \E p \in Procs : Load(p)
    \/ \E p \in Procs : SaveCheck(p)
    \/ \E p \in Procs : SaveInsert(p)
    \/ \E p \in Procs : ProjectSelect(p)
    \/ \E p \in Procs : ProjectWrite(p)
    \/ \E p \in Procs : SaveSnapshot(p)
    \/ \E p \in Procs : Complete(p)

SpecSeq == Init /\ [][NextSeq]_vars

\* One client sending one command at a time, with projections that may fail
\* and be retried.
Client == CHOOSE p \in Procs : TRUE

NextOps ==
    \/ query.pc = "idle" /\ \E c \in Commands : RequestNoRebuild(Client, c)
    \/ query.pc = "idle" /\ Load(Client)
    \/ query.pc = "idle" /\ SaveCheck(Client)
    \/ query.pc = "idle" /\ SaveInsert(Client)
    \/ query.pc = "idle" /\ ProjectSelect(Client)
    \/ query.pc = "idle" /\ ProjectWrite(Client)
    \/ query.pc = "idle" /\ ProjectFail(Client)
    \/ query.pc = "idle" /\ ProjectThrow(Client)
    \/ query.pc = "idle" /\ SaveSnapshot(Client)
    \/ query.pc = "idle" /\ Complete(Client)
    \/ query.pc = "idle" /\ DirectProject
    \/ query.pc = "idle" /\ RebuildTruncate
    \/ query.pc = "idle" /\ RebuildSelect
    \/ query.pc = "idle" /\ RebuildProject
    \/ query.pc = "idle" /\ RebuildComplete
    \/ \E a \in Accounts, t \in QueryTimes : BalanceAt(a, t)
    \/ QueryComplete

SpecOps == Init /\ [][NextOps]_vars

\* Concurrent commands while time passes, rebuilds that run while no command
\* is in flight, and balance-at queries; a query is answered before anything
\* else happens.  The commands are one creation, one deposit, one withdrawal
\* and the close.
TimedCommands ==
    {c \in Commands :
        \/ c.type = "create" /\ c.initialBalance = MaxInitialBalance
        \/ c.type = "deposit" /\ c.amount = MaxAmount /\ c.transactionId = "t1"
        \/ c.type = "withdraw" /\ c.amount = MaxAmount /\ c.transactionId = "t2"
        \/ c.type = "close"}

NextTime ==
    \/ query.pc = "idle" /\ \E p \in Procs, c \in TimedCommands :
                                 RequestNoRebuild(p, c)
    \/ query.pc = "idle" /\ \E p \in Procs : Load(p)
    \/ query.pc = "idle" /\ \E p \in Procs : SaveCheck(p)
    \/ query.pc = "idle" /\ \E p \in Procs : SaveInsert(p)
    \/ query.pc = "idle" /\ \E p \in Procs : ProjectSelect(p)
    \/ query.pc = "idle" /\ \E p \in Procs : ProjectWrite(p)
    \/ query.pc = "idle" /\ \E p \in Procs : SaveSnapshot(p)
    \/ query.pc = "idle" /\ \E p \in Procs : Complete(p)
    \/ query.pc = "idle" /\ Tick
    \/ query.pc = "idle" /\ RebuildTruncate
    \/ query.pc = "idle" /\ RebuildSelect
    \/ query.pc = "idle" /\ RebuildProject
    \/ query.pc = "idle" /\ RebuildComplete
    \/ \E a \in Accounts, t \in QueryTimes : BalanceAt(a, t)
    \/ QueryComplete

SpecTime == Init /\ [][NextTime]_vars

\* One client sending one command at a time to either of two accounts.
TwoAccounts == {"a1", "a2"}

TwoAccountCommands == {[c EXCEPT !.id = a] : c \in Commands, a \in TwoAccounts}

InitTwo ==
    /\ events = [a \in TwoAccounts |-> <<>>]
    /\ snapshots = <<>>
    /\ summaries = <<>>
    /\ history = <<>>
    /\ pc = [p \in Procs |-> "idle"]
    /\ cmd = [p \in Procs |-> NoCmd]
    /\ snap = [p \in Procs |-> NoSnapshot]
    /\ account = [p \in Procs |-> NewBankAccount]
    /\ proj = [p \in Procs |-> NoProj]
    /\ resp = [p \in Procs |-> NoResp]
    /\ clock = 0
    /\ failed = {}
    /\ rebuild = NoRebuild
    /\ query = NoQuery

NextTwo ==
    \/ \E c \in TwoAccountCommands : Request(Client, c)
    \/ Load(Client)
    \/ SaveCheck(Client)
    \/ SaveInsert(Client)
    \/ ProjectSelect(Client)
    \/ ProjectWrite(Client)
    \/ SaveSnapshot(Client)
    \/ Complete(Client)

SpecTwo == InitTwo /\ [][NextTwo]_vars

\* ------------------------------------------------------ auxiliary operators
\* the aggregate replayed from the full log, no snapshot
Replay(a) == hydrate(getEvents(events, a, 0), NoSnapshot)

\* the aggregate replayed from the events numbered up to n
ReplayTo(a, n) ==
    applyAll(NewBankAccount,
             SelectSeq(getEvents(events, a, 0), LAMBDA row : row.version <= n))

SameAggregate(x, y) == x.state = y.state /\ x.version = y.version

IsMoney(row) == row.eventType \in {MoneyDeposited, MoneyWithdrawn}

\* initial balances plus deposits minus withdrawals, summed over the rows
RECURSIVE LedgerBalance(_)
LedgerBalance(rows) ==
    IF rows = <<>> THEN 0
    ELSE LET r == Head(rows)
             d == CASE r.eventType = AccountCreated -> r.eventData.initialBalance
                    [] r.eventType = MoneyDeposited -> r.eventData.amount
                    [] r.eventType = MoneyWithdrawn -> 0 - r.eventData.amount
                    [] OTHER -> 0
         IN d + LedgerBalance(Tail(rows))

\* positions of the deposits/withdrawals of account a that carry transaction t
TxRows(a, t) ==
    {i \in 1..Len(events[a]) :
        IsMoney(events[a][i]) /\ events[a][i].eventData.transactionId = t}

HasClosed(a) ==
    \E i \in 1..Len(events[a]) : events[a][i].eventType = AccountClosed

KeyTaken(p) == eventExists(events, Change(p).aggregateId, Change(p).eventNumber)

\* request p appended its event
Appended(p) ==
    \/ pc[p] \in {"project", "projectWrite", "saveSnapshot"}
    \/ pc[p] = "done" /\ resp[p].status = 202 /\ account[p].changes # <<>>

\* request p lost the race for its event number
Conflicted(p) == pc[p] = "done" /\ resp[p].status = 500

\* the step in which request p's save fails
ConflictStep(p) == pc[p] \in {"save", "insert"} /\ pc'[p] = "done"

\* the step in which request p finishes loading and runs its command
LoadStep(p) == pc[p] = "getEvents" /\ pc'[p] # "getEvents"

\* the step in which request p is accepted by the route or refused by it
RequestStep(p) == pc[p] = "idle" /\ pc'[p] # "idle"

\* what the command of request p is refused for, given the aggregate it loads
Refused(p) ==
    LET c == cmd[p]
        loaded == Loaded(p)
    IN \/ c.type = "create" /\ loaded.version > 0
       \/ c.type # "create" /\ loaded.version = 0
       \/ c.type \in {"deposit", "withdraw"} /\ loaded.state.status = "CLOSED"
       \/ c.type \in {"deposit", "withdraw"} /\ c.amount <= 0
       \/ c.type = "withdraw" /\ c.amount > loaded.state.balance
       \/ c.type = "close" /\ loaded.state.balance # 0
       \/ c.type = "close" /\ loaded.state.status = "CLOSED"

\* the step in which the projection of request p's event fails
ProjectionFails(p) ==
    /\ pc[p] \in {"project", "projectWrite"}
    /\ Change(p) \notin failed /\ Change(p) \in failed'

\* the step that is the retried call project(e)
RetryStep(e) ==
    e \in failed /\ e \notin failed' /\ rebuild.pc = "idle" /\ rebuild' = rebuild

\* every event of every account's log
LoggedEvents == allRows(events)

\* the step in which a balance-at query is answered
QueryStep == query.pc = "idle" /\ query'.pc = "done"

\* the events of account a stamped at or before time t, by position
StampedBy(a, t) == {i \in 1..Len(events[a]) : events[a][i].timestamp <= t}

\* the aggregate replayed from the first n rows of account a's log
ReplayFirst(a, n) == applyAll(NewBankAccount, SubSeq(events[a], 1, n))

\* the step in which request p's snapshot write returns
SnapshotStep(p) == pc[p] = "saveSnapshot" /\ pc'[p] # "saveSnapshot"

\* the event of request p is in the log
InLog(p) ==
    /\ account[p].changes # <<>>
    /\ Len(events[cmd[p].id]) >= Change(p).eventNumber
    /\ events[cmd[p].id][Change(p).eventNumber] = Change(p)

\* no request is still projecting event e
Projected(e) ==
    ~ \E p \in Procs : pc[p] \in {"project", "projectWrite"} /\ Change(p) = e

Quiescent == \A p \in Procs : pc[p] \in {"idle", "done"}

\* =================================================================== claims

\* C1: EventStore.save of an event whose (aggregateId, eventNumber) is already
\* in the log fails and leaves the log as it was; otherwise it appends exactly
\* that event.  So no two rows of the log ever share (aggregateId, eventNumber).
C1_UniqueKeys ==
    \A a \in Accounts : \A i, j \in 1..Len(events[a]) :
        events[a][i].eventNumber = events[a][j].eventNumber => i = j

C1_SaveOutcome ==
    \A p \in Procs :
        (pc[p] \in {"save", "insert"} /\ pc'[p] # pc[p]) =>
            IF KeyTaken(p)
            THEN /\ events' = events
                 /\ pc'[p] = "done" /\ resp'[p].status = 500
            ELSE \/ pc[p] = "save" /\ pc'[p] = "insert" /\ events' = events
                 \/ /\ pc[p] = "insert" /\ pc'[p] = "project"
                    /\ events' = [events EXCEPT ![Change(p).aggregateId] =
                                      Append(@, Change(p))]

C1_AppendIsExclusive == [](C1_UniqueKeys) /\ [][C1_SaveOutcome]_vars

\* a save failed on a conflict while the log holds the event that won
C1_Witness ==
    \E p \in Procs :
        /\ Conflicted(p) /\ KeyTaken(p)
        /\ Len(events[Change(p).aggregateId]) >= 2

\* C2: of two deposits with different transactionIds racing for the same event
\* number, one is appended and the other fails; the failing save changes
\* neither the log nor the read models; the retried deposit is then in the log
\* exactly once and raises the balance by its amount.
C2_OneWinner ==
    \A p, q \in Procs :
        (p # q /\ Appended(p) /\ Appended(q)
              /\ Change(p).aggregateId = Change(q).aggregateId)
            => Change(p).eventNumber # Change(q).eventNumber

C2_LoserLostToSomeone == \A p \in Procs : Conflicted(p) => KeyTaken(p)

C2_AcceptedOnce ==
    \A p \in Procs :
        (pc[p] = "done" /\ resp[p].status = 202 /\ cmd[p].type = "deposit") =>
            LET a == cmd[p].id
                t == cmd[p].transactionId
            IN /\ Cardinality(TxRows(a, t)) = 1
               /\ account[p].changes # <<>> =>
                    /\ events[a][Change(p).eventNumber] = Change(p)
                    /\ ReplayTo(a, Change(p).eventNumber).state.balance =
                         ReplayTo(a, Change(p).eventNumber - 1).state.balance
                           + cmd[p].amount

C2_LoserLeavesNoTrace ==
    \A p \in Procs : ConflictStep(p) => store' = store

C2_RaceHasOneWinner ==
    /\ [](C2_OneWinner /\ C2_LoserLostToSomeone /\ C2_AcceptedOnce)
    /\ [][C2_LoserLeavesNoTrace]_vars

\* p lost the race to a deposit with another transactionId, and the same
\* deposit, submitted again by q, was appended right after the winner
C2_Witness ==
    \E p, q \in Procs :
        /\ p # q /\ Conflicted(p) /\ cmd[p].type = "deposit"
        /\ cmd[q] = cmd[p] /\ pc[q] = "done" /\ resp[q].status = 202
        /\ account[q].changes # <<>>
        /\ Change(q).eventNumber = Change(p).eventNumber + 1
        /\ LET w == events[cmd[p].id][Change(p).eventNumber]
           IN /\ w.eventType = MoneyDeposited
              /\ w.eventData.transactionId # cmd[p].transactionId

\* C3: the balance of the aggregate loaded from the log (snapshot plus tail)
\* is the initial balance plus all deposited amounts minus all withdrawn
\* amounts of that account's log.
C3_BalanceIsLedgerSum ==
    \A a \in Accounts :
        Len(events[a]) > 0 =>
            loadBankAccount(snapshots, events, a).state.balance =
                LedgerBalance(events[a])

\* an account with a deposit and a withdrawal, loaded from a snapshot and a tail
C3_Witness ==
    \E a \in Accounts :
        /\ a \in DOMAIN snapshots
        /\ snapshots[a].last_event_number < Len(events[a])
        /\ \E i, j \in 1..Len(events[a]) :
              /\ events[a][i].eventType = MoneyDeposited
              /\ events[a][j].eventType = MoneyWithdrawn

\* C4: with commands run one after another, whenever no command is in
\* flight every account's account_summaries row has the balance, status and
\* version of the aggregate replayed from that account's log.
SummaryMatchesLog(a) ==
    IF Len(events[a]) = 0 THEN a \notin DOMAIN summaries
    ELSE /\ a \in DOMAIN summaries
         /\ summaries[a].balance = Replay(a).state.balance
         /\ summaries[a].status = Replay(a).state.status
         /\ summaries[a].version = Replay(a).version

C4_SummaryEqualsReplay ==
    (\A p \in Procs : pc[p] \in {"idle", "done"}) =>
        \A a \in Accounts : SummaryMatchesLog(a)

\* a finished history of a creation, a deposit, a withdrawal and a close
C4_Witness ==
    /\ \A p \in Procs : pc[p] \in {"idle", "done"}
    /\ \E a \in Accounts :
          /\ HasClosed(a)
          /\ \E i, j \in 1..Len(events[a]) :
                /\ events[a][i].eventType = MoneyDeposited
                /\ events[a][j].eventType = MoneyWithdrawn

\* C5: a deposit submitted again (same amount and transactionId) on the open
\* account that already holds it is accepted without error and appends
\* nothing: the log keeps exactly one MoneyDeposited event with that
\* transactionId, the balance is unchanged, and transaction_history holds the
\* row of that transactionId.
AlreadyDeposited(p) ==
    \E i \in 1..Len(events[cmd[p].id]) :
        LET row == events[cmd[p].id][i]
        IN /\ row.eventType = MoneyDeposited
           /\ row.eventData.transactionId = cmd[p].transactionId
           /\ row.eventData.amount = cmd[p].amount

C5_SecondSubmission ==
    \A p \in Procs :
        (LoadStep(p) /\ cmd[p].type = "deposit" /\ AlreadyDeposited(p)
                     /\ Replay(cmd[p].id).state.status = "OPEN") =>
            /\ pc'[p] = "done"
            /\ resp'[p] = Response(202, "")
            /\ account'[p].changes = <<>>
            /\ account'[p].state.balance = Replay(cmd[p].id).state.balance
            /\ store' = store

C5_OneEventOneRow ==
    \A p \in Procs :
        (pc[p] = "done" /\ cmd[p].type = "deposit" /\ resp[p].status = 202) =>
            /\ Cardinality(TxRows(cmd[p].id, cmd[p].transactionId)) = 1
            /\ cmd[p].transactionId \in DOMAIN history

C5_DepositIsIdempotent == [](C5_OneEventOneRow) /\ [][C5_SecondSubmission]_vars

\* the second submission of a deposit has been answered
C5_Witness ==
    \E p \in Procs :
        /\ pc[p] = "done" /\ cmd[p].type = "deposit" /\ AlreadyDeposited(p)
        /\ resp[p].status = 202 /\ account[p].changes = <<>>

\* C6: a withdraw with amount > 0 whose transactionId is already in the
\* processed set of the OPEN account it loads is a no-op: no event, balance
\* and version as loaded, no error.
C6_DuplicateWithdrawIsNoOp ==
    \A p \in Procs :
        (LoadStep(p) /\ cmd[p].type = "withdraw" /\ cmd[p].amount > 0
                     /\ Loaded(p).version > 0
                     /\ Loaded(p).state.status = "OPEN"
                     /\ cmd[p].transactionId \in
                            Loaded(p).state.processedTransactionIds) =>
            /\ pc'[p] = "done"
            /\ resp'[p] = Response(202, "")
            /\ account'[p].changes = <<>>
            /\ account'[p].state.balance = Loaded(p).state.balance
            /\ account'[p].version = Loaded(p).version

C6_WithdrawIdempotent == [][C6_DuplicateWithdrawIsNoOp]_vars

\* C7: no account's log holds two MoneyDeposited/MoneyWithdrawn events with
\* the same transactionId, whatever the interleaving, the retries and the
\* snapshots used by the loads.
C7_ExactlyOnce ==
    \A a \in Accounts : \A t \in TransactionIds : Cardinality(TxRows(a, t)) <= 1

\* a resubmitted transaction was recognised by a load that started from a
\* snapshot, next to a request that lost a race
C7_Witness ==
    \E p, q \in Procs :
        /\ pc[p] = "done" /\ resp[p].status = 202 /\ account[p].changes = <<>>
        /\ snap[p].present
        /\ TxRows(cmd[p].id, cmd[p].transactionId) # {}
        /\ Conflicted(q)

\* C8: loading from the stored snapshot plus the events after its
\* lastEventNumber gives the same state and version as replaying the full
\* log; so does a load whose snapshot was read before later events arrived.
C8_SnapshotEquivalence ==
    /\ \A a \in Accounts :
          a \in DOMAIN snapshots =>
              SameAggregate(loadBankAccount(snapshots, events, a), Replay(a))
    /\ \A p \in Procs :
          pc[p] = "getEvents" => SameAggregate(Loaded(p), Replay(cmd[p].id))

\* a stored snapshot with processed transactions, with and without a tail
C8_Witness ==
    \E a \in Accounts :
        /\ a \in DOMAIN snapshots
        /\ snapshots[a].snapshot_data.processedTransactionIds.items # <<>>
        /\ snapshots[a].last_event_number < Len(events[a])
        /\ \E p \in Procs : pc[p] = "getEvents" /\ snap[p].present
                               /\ snap[p].lastEventNumber = Len(events[a])

\* C9: close on an open account with a non-zero balance fails with the
\* non-zero-balance error, close on a closed account fails with the
\* already-closed error, and neither appends an event.
C9_CloseRejected ==
    \A p \in Procs :
        (LoadStep(p) /\ cmd[p].type = "close" /\ Loaded(p).version > 0) =>
            /\ (Loaded(p).state.status = "OPEN" /\ Loaded(p).state.balance # 0) =>
                  /\ pc'[p] = "done"
                  /\ resp'[p] =
                       Response(409, "Cannot close account with non-zero balance")
                  /\ account'[p].changes = <<>>
                  /\ events' = events
            /\ Loaded(p).state.status = "CLOSED" =>
                  /\ pc'[p] = "done"
                  /\ resp'[p] = Response(409, "Account is already closed")
                  /\ account'[p].changes = <<>>
                  /\ events' = events

C9_NoCloseEvent ==
    \A p \in Procs :
        (cmd[p].type = "close" /\ account[p].changes # <<>>) =>
            /\ Change(p).eventType = AccountClosed
            /\ ReplayTo(cmd[p].id, Change(p).eventNumber - 1).state.status = "OPEN"
            /\ ReplayTo(cmd[p].id, Change(p).eventNumber - 1).state.balance = 0

C9_CloseErrors == [](C9_NoCloseEvent) /\ [][C9_CloseRejected]_vars

\* both refusals have been answered
C9_Witness ==
    \E p, q \in Procs :
        /\ pc[p] = "done" /\ cmd[p].type = "close"
        /\ resp[p].error = "Cannot close account with non-zero balance"
        /\ pc[q] = "done" /\ cmd[q].type = "close"
        /\ resp[q].error = "Account is already closed"

\* C10: once an AccountClosed event is in an account's log, that log never
\* changes again, and the account replays (and loads) as CLOSED.
C10_ClosedLogFrozen ==
    \A a \in Accounts : HasClosed(a) => events'[a] = events[a]

C10_ClosedStaysClosed ==
    \A a \in Accounts :
        HasClosed(a) =>
            /\ Replay(a).state.status = "CLOSED"
            /\ loadBankAccount(snapshots, events, a).state.status = "CLOSED"

C10_ClosedIsTerminal == [](C10_ClosedStaysClosed) /\ [][C10_ClosedLogFrozen]_vars

\* after the close, a deposit was refused and a racing request lost its save
C10_Witness ==
    \E a \in Accounts :
        /\ HasClosed(a)
        /\ \E p, q \in Procs :
              /\ pc[p] = "done" /\ cmd[p].type = "deposit" /\ cmd[p].id = a
              /\ resp[p].error = "Account is closed"
              /\ Conflicted(q) /\ cmd[q].id = a

\* C13: a command refused by validation or by a business rule (closed
\* account, non-positive amount, withdrawal above the balance, close with a
\* balance or of a closed account, create of an existing account, command on
\* a missing account) is answered 400/404/409 at once, and neither that step
\* nor any earlier step of the request changes the event log, the snapshots,
\* account_summaries or transaction_history.
C13_RefusalChangesNothing ==
    \A p \in Procs :
        /\ RequestStep(p) =>
              /\ store' = store
              /\ invalidInput(cmd'[p]) =>
                    pc'[p] = "done" /\ resp'[p].status = 400
        /\ (LoadStep(p) /\ Refused(p)) =>
              /\ pc'[p] = "done"
              /\ resp'[p].status \in {404, 409}
              /\ account'[p].changes = <<>>
              /\ store' = store
        /\ (pc[p] # "done" /\ pc'[p] = "done"
                /\ resp'[p].status \in {400, 404, 409}) =>
              /\ pc[p] \in {"idle", "getEvents"}
              /\ store' = store

C13_RejectedHasNoEffect == [][C13_RefusalChangesNothing]_vars

\* a withdrawal above the balance and a deposit on a closed account have
\* both been refused, with events in the log
C13_Witness ==
    \E p, q \in Procs :
        /\ pc[p] = "done" /\ resp[p].error = "Insufficient funds"
        /\ pc[q] = "done" /\ resp[q].error = "Account is closed"
        /\ cmd[q].type = "deposit"
        /\ Len(events[cmd[p].id]) >= 2

\* C15: the event numbers of every account's log are 1..n in order, event 1
\* is the log's only AccountCreated event, and every event's version is its
\* event number.
C15_GaplessNumbering ==
    \A a \in Accounts : \A i \in 1..Len(events[a]) :
        /\ events[a][i].eventNumber = i
        /\ events[a][i].version = i
        /\ events[a][i].aggregateId = a
        /\ (events[a][i].eventType = AccountCreated) <=> (i = 1)

\* a log of four events, written past a snapshot and next to a lost race
C15_Witness ==
    \E a \in Accounts :
        /\ Len(events[a]) = 4
        /\ a \in DOMAIN snapshots
        /\ \E p \in Procs : Conflicted(p) /\ cmd[p].id = a /\ snap[p].present

\* C17: with concurrent commands, no projection failure and no rebuild, once
\* no command is in flight the account_summaries row of every account with
\* events has the balance, status and version of the replayed log.
C17_SummaryCatchesUp ==
    Quiescent =>
        \A a \in Accounts :
            events[a] # <<>> =>
                /\ a \in DOMAIN summaries
                /\ <<summaries[a].balance, summaries[a].status, summaries[a].version>>
                     = <<Replay(a).state.balance, Replay(a).state.status,
                         Replay(a).version>>

\* C14: when the projection of an appended event fails, the event stays in the
\* log, account_summaries and transaction_history are as they were before
\* the projection started, and the route carries on to its snapshot test and
\* its 202 answer: the projection error does not reach the caller.
C14_FailureIsContained ==
    \A p \in Procs :
        ProjectionFails(p) =>
            /\ events' = events
            /\ events[Change(p).aggregateId][Change(p).eventNumber] = Change(p)
            /\ summaries' = summaries /\ history' = history
            /\ \/ pc'[p] = "saveSnapshot"
               \/ pc'[p] = "done" /\ resp'[p] = Response(202, "")

C14_ProjectionFailureSwallowed == [][C14_FailureIsContained]_vars

\* C18: in every reachable state of the read models and for every event of
\* the log, project(e) run a second time right after a successful project(e)
\* changes neither account_summaries nor transaction_history.
C18_ProjectIdempotent ==
    \A e \in LoggedEvents :
        LET once == project(summaries, history, e)
        IN project(once[1], once[2], e) = once

\* read models on which project(e) adjusts a balance and adds a transaction
\* row, and read models on which an AccountCreated finds its row
C18_Witness ==
    /\ \E e \in LoggedEvents :
          /\ IsMoney(e) /\ e.eventData.amount > 0
          /\ e.aggregateId \in DOMAIN summaries
          /\ e.eventData.transactionId \notin DOMAIN history
          /\ project(summaries, history, e)[1] # summaries
    /\ \E e \in LoggedEvents :
          e.eventType = AccountCreated /\ e.aggregateId \in DOMAIN summaries

\* C19: a successful retried call project(e), for an event e whose projection
\* failed, leaves the read models with e's effect: the balance moved by e's
\* amount and e's transaction row present, or the status CLOSED, or the
\* summary row created; whatever was projected since the failure.
C19_RetryTakesEffect ==
    \A e \in failed :
        RetryStep(e) =>
            LET a == e.aggregateId
                d == e.eventData
            IN /\ a \in DOMAIN summaries'
               /\ e.eventType = MoneyDeposited =>
                     /\ a \in DOMAIN summaries
                     /\ summaries'[a].balance = summaries[a].balance + d.amount
                     /\ d.transactionId \in DOMAIN history'
               /\ e.eventType = MoneyWithdrawn =>
                     /\ a \in DOMAIN summaries
                     /\ summaries'[a].balance = summaries[a].balance - d.amount
                     /\ d.transactionId \in DOMAIN history'
               /\ e.eventType = AccountClosed => summaries'[a].status = "CLOSED"

C19_RetryRecovers == [][C19_RetryTakesEffect]_vars

\* C11: when a rebuild that ran with no command in flight is over,
\* account_summaries and transaction_history hold what they held before it.
C11_RebuildChangesNothing ==
    rebuild.pc = "done" => <<summaries, history>> = rebuild.before

\* C12: the timestamps of an account's log never decrease, so the events
\* stamped at or before T are the first n of the log; the balance-at query
\* answers 404 when n = 0, else the balance replayed from those n events,
\* which is the current balance when T is not before the last event's stamp.
C12_TimestampsAscend ==
    \A a \in Accounts : \A i, j \in 1..Len(events[a]) :
        i <= j => events[a][i].timestamp <= events[a][j].timestamp

C12_Answer ==
    (QueryStep /\ ~isNaN(query'.timestamp)) =>
        LET a == query'.id
            t == query'.timestamp
            n == Cardinality(StampedBy(a, t))
        IN /\ StampedBy(a, t) = 1..n
           /\ n = 0 => query'.status = 404
           /\ n > 0 =>
                 /\ query'.status = 200
                 /\ query'.balanceAt = ReplayTo(a, n).state.balance
           /\ (n > 0 /\ t >= events[a][Len(events[a])].timestamp) =>
                 query'.balanceAt = Replay(a).state.balance

C12_BalanceAtIsPrefixReplay == [](C12_TimestampsAscend) /\ [][C12_Answer]_vars

\* a query answered with the balance of two events out of a longer log,
\* which is not the balance now
C12_Witness ==
    /\ query.pc = "done" /\ query.status = 200
    /\ Cardinality(StampedBy(query.id, query.timestamp)) = 2
    /\ Len(events[query.id]) > 2
    /\ query.balanceAt # Replay(query.id).state.balance

\* C16: every step leaves each account's log as it was or appends one event
\* to one log; no event already logged is removed or altered.
C16_LogStep ==
    /\ \A a \in Accounts :
          \/ events'[a] = events[a]
          \/ /\ Len(events'[a]) = Len(events[a]) + 1
             /\ SubSeq(events'[a], 1, Len(events[a])) = events[a]
    /\ Cardinality({a \in Accounts : events'[a] # events[a]}) <= 1

C16_LogIsAppendOnly == [][C16_LogStep]_vars

\* a rebuild is over that changed the read models, on a log of three events
\* or more with a snapshot taken
C16_Witness ==
    /\ rebuild.pc = "done"
    /\ rebuild.before # <<summaries, history>>
    /\ \E a \in Accounts : Len(events[a]) >= 3 /\ a \in DOMAIN snapshots

\* C20: when a rebuild that ran with no command in flight and no projection
\* failure is over, the account_summaries row of every account with events
\* is the replayed log: owner, balance, currency, status, and the last event
\* number as version.
C20_RebuiltEqualsReplay ==
    rebuild.pc = "done" =>
        \A a \in Accounts :
            events[a] # <<>> =>
                /\ a \in DOMAIN summaries
                /\ summaries[a] =
                     [owner_name |-> Replay(a).state.ownerName,
                      balance |-> Replay(a).state.balance,
                      currency |-> Replay(a).state.currency,
                      status |-> Replay(a).state.status,
                      version |-> Len(events[a])]

\* a rebuild is over that repaired a stale summary, on a log whose events
\* were stamped at different times
C20_Witness ==
    /\ rebuild.pc = "done"
    /\ rebuild.before[1] # summaries
    /\ \E a \in Accounts :
          /\ Len(events[a]) >= 3
          /\ events[a][1].timestamp < events[a][Len(events[a])].timestamp

\* C21: without a rebuild, the version of an account's account_summaries
\* row never decreases, whatever the interleaving of the projections.
C21_VersionStep ==
    \A a \in DOMAIN summaries :
        /\ a \in DOMAIN summaries'
        /\ summaries'[a].version >= summaries[a].version

C21_SummaryVersionMonotone == [][C21_VersionStep]_vars

\* C22: the events that precede an AccountClosed event in a log replay to an
\* OPEN account with balance zero, also when the close raced with deposits
\* and withdrawals.
C22_ClosedAtZero ==
    \A a \in Accounts : \A i \in 1..Len(events[a]) :
        events[a][i].eventType = AccountClosed =>
            /\ ReplayFirst(a, i - 1).state.balance = 0
            /\ ReplayFirst(a, i - 1).state.status = "OPEN"

\* an account closed after money moved, with a deposit or withdrawal that
\* lost its race and a close that was refused for its balance
C22_Witness ==
    \E a \in Accounts :
        /\ HasClosed(a)
        /\ \E i \in 1..Len(events[a]) : IsMoney(events[a][i])
        /\ \E p, q \in Procs :
              /\ Conflicted(p) /\ cmd[p].id = a
              /\ cmd[p].type \in {"deposit", "withdraw"}
              /\ pc[q] = "done" /\ cmd[q].id = a /\ cmd[q].type = "close"
              /\ resp[q].status = 202

\* C25: the lastEventNumber of an account's stored snapshot never decreases,
\* and no two requests are about to write a snapshot of one account.
C25_SnapshotStep ==
    \A a \in DOMAIN snapshots :
        /\ a \in DOMAIN snapshots'
        /\ snapshots'[a].last_event_number >= snapshots[a].last_event_number

C25_OneWriter ==
    \A p, q \in Procs :
        (pc[p] = "saveSnapshot" /\ pc[q] = "saveSnapshot" /\ cmd[p].id = cmd[q].id)
            => p = q

C25_SnapshotNeverGoesBack == [](C25_OneWriter) /\ [][C25_SnapshotStep]_vars

\* C26: an account_summaries row of version v has the balance and status of
\* the first v events of the account's log replayed.
C26_SummaryIsPrefix ==
    \A a \in DOMAIN summaries :
        LET v == summaries[a].version
        IN /\ v <= Len(events[a])
           /\ summaries[a].balance = ReplayFirst(a, v).state.balance
           /\ summaries[a].status = ReplayFirst(a, v).state.status

\* C27: no prefix of a log replays to a negative balance, also when
\* withdrawals race.
C27_NeverNegative ==
    \A a \in Accounts : \A n \in 0..Len(events[a]) :
        ReplayFirst(a, n).state.balance >= 0

\* an emptied account, with a withdrawal that lost its race and another
\* refused for insufficient funds
C27_Witness ==
    \E a \in Accounts :
        /\ \E n \in 2..Len(events[a]) :
              /\ events[a][n].eventType = MoneyWithdrawn
              /\ ReplayFirst(a, n).state.balance = 0
        /\ \E p, q \in Procs :
              /\ Conflicted(p) /\ cmd[p].id = a /\ cmd[p].type = "withdraw"
              /\ pc[q] = "done" /\ cmd[q].id = a
              /\ resp[q].error = "Insufficient funds"

\* C23: a stored snapshot's lastEventNumber is at most the number of the
\* account's last logged event, and the snapshot restores to the state and
\* version of the log's first lastEventNumber events replayed.
C23_SnapshotIsPrefixState ==
    \A a \in DOMAIN snapshots :
        LET n == snapshots[a].last_event_number
        IN /\ n <= Len(events[a])
           /\ SameAggregate(hydrate(<<>>, getSnapshot(snapshots, a)),
                            ReplayFirst(a, n))

\* a snapshot two events behind its log, used by a load in flight
C23_Witness ==
    \E a \in DOMAIN snapshots :
        /\ snapshots[a].last_event_number + 2 = Len(events[a])
        /\ \E p \in Procs : pc[p] = "getEvents" /\ cmd[p].id = a /\ snap[p].present

\* C24: a snapshot is written exactly by a command that appended an event
\* whose number is a multiple of the interval: the write comes after the
\* append and the projection and tags the snapshot with that number; a
\* command that answers 202 after appending such an event has written it,
\* and one that answers 202 after appending any other event has left the
\* snapshots untouched.
C24_SnapshotStep ==
    /\ snapshots' # snapshots =>
          \E p \in Procs :
              /\ SnapshotStep(p) /\ InLog(p)
              /\ Change(p).eventNumber % SnapshotInterval = 0
              /\ snapshots' = saveSnapshot(snapshots, cmd[p].id,
                                           SnapshotData(account[p]),
                                           Change(p).eventNumber)
    /\ \A p \in Procs :
          /\ (pc[p] # "saveSnapshot" /\ pc'[p] = "saveSnapshot") =>
                pc[p] \in {"project", "projectWrite"} /\ InLog(p)
          /\ (pc[p] \in {"project", "projectWrite", "saveSnapshot"}
                  /\ pc'[p] = "done" /\ resp'[p].status = 202) =>
                IF Change(p).eventNumber % SnapshotInterval = 0
                THEN /\ pc[p] = "saveSnapshot"
                     /\ cmd[p].id \in DOMAIN snapshots'
                     /\ snapshots'[cmd[p].id].last_event_number =
                          Change(p).eventNumber
                ELSE pc[p] # "saveSnapshot" /\ snapshots' = snapshots

C28_TransactionRowPresent ==
    \A a \in DOMAIN events : \A i \in 1..Len(events[a]) :
        LET e == events[a][i]
            t == e.eventData.transactionId
        IN (IsMoney(e) /\ Projected(e)) =>
              /\ t \in DOMAIN history
              /\ history[t] =
                   [account_id |-> a,
                    type |-> IF e.eventType = MoneyDeposited
                             THEN "DEPOSIT" ELSE "WITHDRAWAL",
                    amount |-> e.eventData.amount]

====